---- MODULE Spec2Model ----
(***************************************************************************)
(* Dining philosophers with a watchdog (DiningPhilosophersEdited.py).      *)
(*                                                                         *)
(* Every Philosopher thread and the check_forks thread is a process whose  *)
(* program counter advances one statement at a time; the statements of     *)
(* Fork.__call__ and Fork.__exit__ are separate steps, because the fields  *)
(* lock, picked_up and owner of a Fork are written one after the other     *)
(* with no lock protecting the three together.  threading.Lock.release()   *)
(* on an unlocked lock raises RuntimeError; an uncaught exception ends the *)
(* thread that raised it.  time.sleep() changes no state and is not a step.*)
(***************************************************************************)
EXTENDS Integers, Sequences, FiniteSets

(* main(): n philosophers and forks, m portions each; scaled down here.    *)
NumPhil == 2
Meals == 2
(* check_forks: "if system_time > 15"; scaled down here.                   *)
StallThreshold == 1

Phils == 0 .. NumPhil - 1
Forks == 0 .. NumPhil - 1
NoOwner == -1

(* main(): Philosopher(i, forks[i], forks[(i + 1) % n], m)                 *)
LeftFork(i) == i
RightFork(i) == (i + 1) % NumPhil

VARIABLES
    lock,          \* Fork.lock: TRUE while the threading.Lock is locked
    picked_up,     \* Fork.picked_up
    owner,         \* Fork.owner
    spaghetti,     \* Philosopher.spaghetti
    eating,        \* Philosopher.eating
    pc,            \* position of each Philosopher thread
    exc,           \* a RuntimeError is propagating out of the thread's with-blocks
    wpc,           \* position of the check_forks thread
    system_time,   \* check_forks: system_time
    widx,          \* check_forks: next philosopher the sum() generator reads
    wcount,        \* check_forks: partial sum of eating flags
    wfork,         \* check_forks: fork_index while inside fork.__exit__
    forced,        \* history: forks whose lock the watchdog has released
    holder,        \* history: the thread whose lock.acquire() locked the lock
    freed,         \* history: the running forced release cleared a set picked_up
    calls          \* history of the single-threaded driver: its last two calls

vars == <<lock, picked_up, owner, spaghetti, eating, pc, exc,
          wpc, system_time, widx, wcount, wfork, forced, holder, freed, calls>>

forkVars == <<lock, picked_up, owner>>
philVars == <<spaghetti, eating, pc, exc>>
wdVars == <<wpc, system_time, widx, wcount, wfork>>

PcValues ==
    {"think", "L_acquire", "L_owner", "L_picked", "R_acquire", "R_owner",
     "R_picked", "decrement", "eat_on", "eat_off",
     "R_exit", "R_release", "R_unpick", "R_unown",
     "L_exit", "L_release", "L_unpick", "L_unown", "done", "dead"}

WpcValues == {"sum", "test", "exit", "release", "unpick", "unown", "dead"}

TypeOK ==
    /\ lock \in [Forks -> BOOLEAN]
    /\ picked_up \in [Forks -> BOOLEAN]
    /\ owner \in [Forks -> Phils \cup {NoOwner}]
    /\ spaghetti \in [Phils -> 0 .. Meals]
    /\ eating \in [Phils -> BOOLEAN]
    /\ pc \in [Phils -> PcValues]
    /\ exc \in [Phils -> BOOLEAN]
    /\ wpc \in WpcValues
    /\ system_time \in 0 .. StallThreshold + 1
    /\ widx \in 0 .. NumPhil
    /\ wcount \in 0 .. NumPhil
    /\ wfork \in Forks \cup {NoOwner}
    /\ forced \subseteq Forks
    /\ holder \in [Forks -> Phils \cup {NoOwner}]
    /\ freed \in BOOLEAN
    /\ Len(calls) <= 2

(* Fork.__init__, Philosopher.__init__, main(): every fork free, every     *)
(* philosopher started with m portions; check_forks starts at 0.           *)
Init ==
    /\ lock = [f \in Forks |-> FALSE]
    /\ picked_up = [f \in Forks |-> FALSE]
    /\ owner = [f \in Forks |-> NoOwner]
    /\ spaghetti = [i \in Phils |-> Meals]
    /\ eating = [i \in Phils |-> FALSE]
    /\ pc = [i \in Phils |-> "think"]
    /\ exc = [i \in Phils |-> FALSE]
    /\ wpc = "sum"
    /\ system_time = 0
    /\ widx = 0
    /\ wcount = 0
    /\ wfork = NoOwner
    /\ forced = {}
    /\ holder = [f \in Forks |-> NoOwner]
    /\ freed = FALSE
    /\ calls = << >>

Goto(i, l) == pc' = [pc EXCEPT ![i] = l]

(***************************************************************************)
(* Philosopher.run: "while self.spaghetti > 0: self.think(); self.eat()".  *)
(***************************************************************************)
LoopTest(i) == spaghetti[i] > 0

Run(i) ==
    /\ pc[i] = "think"
    /\ Goto(i, IF LoopTest(i) THEN "L_acquire" ELSE "done")
    /\ UNCHANGED <<forkVars, spaghetti, eating, exc, wdVars, forced, holder, freed, calls>>

(***************************************************************************)
(* Fork.__call__: lock.acquire() blocks until the lock is unlocked.        *)
(***************************************************************************)
CanAcquireUnlocked(f) == TRUE

CanAcquire(f) == ~lock[f]

CallAcquire(i, f, at, nxt) ==
    /\ pc[i] = at
    /\ CanAcquire(f)
    /\ lock' = [lock EXCEPT ![f] = TRUE]
    /\ holder' = [holder EXCEPT ![f] = i]
    /\ Goto(i, nxt)
    /\ UNCHANGED <<picked_up, owner, spaghetti, eating, exc, wdVars, forced, freed, calls>>

(* self.owner = owner *)
CallOwner(i, f, at, nxt) ==
    /\ pc[i] = at
    /\ owner' = [owner EXCEPT ![f] = i]
    /\ Goto(i, nxt)
    /\ UNCHANGED <<lock, picked_up, spaghetti, eating, exc, wdVars, forced, holder, freed, calls>>

(* self.picked_up = True; return self *)
CallPicked(i, f, at, nxt) ==
    /\ pc[i] = at
    /\ picked_up' = [picked_up EXCEPT ![f] = TRUE]
    /\ Goto(i, nxt)
    /\ UNCHANGED <<lock, owner, spaghetti, eating, exc, wdVars, forced, holder, freed, calls>>

(***************************************************************************)
(* Philosopher.eat, the body of the inner with-block.                      *)
(***************************************************************************)
Decrement(i) ==
    /\ pc[i] = "decrement"
    /\ spaghetti' = [spaghetti EXCEPT ![i] = @ - 1]
    /\ Goto(i, "eat_on")
    /\ UNCHANGED <<forkVars, eating, exc, wdVars, forced, holder, freed, calls>>

EatOn(i) ==
    /\ pc[i] = "eat_on"
    /\ eating' = [eating EXCEPT ![i] = TRUE]
    /\ Goto(i, "eat_off")
    /\ UNCHANGED <<forkVars, spaghetti, exc, wdVars, forced, holder, freed, calls>>

EatOffKept(i) ==
    /\ pc[i] = "eat_off"
    /\ Goto(i, "R_exit")
    /\ UNCHANGED <<forkVars, spaghetti, eating, exc, wdVars, forced, holder, freed, calls>>

EatOff(i) ==
    /\ pc[i] = "eat_off"
    /\ eating' = [eating EXCEPT ![i] = FALSE]
    /\ Goto(i, "R_exit")
    /\ UNCHANGED <<forkVars, spaghetti, exc, wdVars, forced, holder, freed, calls>>

(***************************************************************************)
(* Fork.__exit__ called by a philosopher at the end of a with-block.       *)
(* after: where the thread continues when __exit__ returns.                *)
(***************************************************************************)
ExitGuard(f) == picked_up[f] = TRUE

(* "if self.picked_up == True:" *)
ExitTest(i, f, at, rel, after) ==
    /\ pc[i] = at
    /\ Goto(i, IF ExitGuard(f) THEN rel ELSE after)
    /\ UNCHANGED <<forkVars, spaghetti, eating, exc, wdVars, forced, holder, freed, calls>>

(* "self.lock.release()": RuntimeError when the lock is not locked.  The   *)
(* exception leaves the inner with-block through the outer __exit__, and   *)
(* leaves the outer with-block by ending the thread.                       *)
ExitRelease(i, f, at, nxt, raised) ==
    /\ pc[i] = at
    /\ IF lock[f]
       THEN /\ lock' = [lock EXCEPT ![f] = FALSE]
            /\ holder' = [holder EXCEPT ![f] = NoOwner]
            /\ Goto(i, nxt)
            /\ exc' = exc
       ELSE /\ UNCHANGED <<lock, holder>>
            /\ Goto(i, raised)
            /\ exc' = [exc EXCEPT ![i] = TRUE]
    /\ UNCHANGED <<picked_up, owner, spaghetti, eating, wdVars, forced, freed, calls>>

(* "self.picked_up = False" *)
ExitUnpick(i, f, at, nxt) ==
    /\ pc[i] = at
    /\ picked_up' = [picked_up EXCEPT ![f] = FALSE]
    /\ Goto(i, nxt)
    /\ UNCHANGED <<lock, owner, spaghetti, eating, exc, wdVars, forced, holder, freed, calls>>

(* "self.owner = -1" *)
ExitUnown(i, f, at, after) ==
    /\ pc[i] = at
    /\ owner' = [owner EXCEPT ![f] = NoOwner]
    /\ Goto(i, after)
    /\ UNCHANGED <<lock, picked_up, spaghetti, eating, exc, wdVars, forced, holder, freed, calls>>

(* Where a philosopher continues after the outer __exit__ returned.        *)
AfterEat(i) == IF exc[i] THEN "dead" ELSE "think"

Eat(i) ==
    \/ CallAcquire(i, LeftFork(i), "L_acquire", "L_owner")
    \/ CallOwner(i, LeftFork(i), "L_owner", "L_picked")
    \/ CallPicked(i, LeftFork(i), "L_picked", "R_acquire")
    \/ CallAcquire(i, RightFork(i), "R_acquire", "R_owner")
    \/ CallOwner(i, RightFork(i), "R_owner", "R_picked")
    \/ CallPicked(i, RightFork(i), "R_picked", "decrement")
    \/ Decrement(i)
    \/ EatOn(i)
    \/ EatOff(i)
    \/ ExitTest(i, RightFork(i), "R_exit", "R_release", "L_exit")
    \/ ExitRelease(i, RightFork(i), "R_release", "R_unpick", "L_exit")
    \/ ExitUnpick(i, RightFork(i), "R_unpick", "R_unown")
    \/ ExitUnown(i, RightFork(i), "R_unown", "L_exit")
    \/ ExitTest(i, LeftFork(i), "L_exit", "L_release", AfterEat(i))
    \/ ExitRelease(i, LeftFork(i), "L_release", "L_unpick", "dead")
    \/ ExitUnpick(i, LeftFork(i), "L_unpick", "L_unown")
    \/ ExitUnown(i, LeftFork(i), "L_unown", AfterEat(i))

Philosopher(i) == Run(i) \/ Eat(i)

(***************************************************************************)
(* check_forks.                                                            *)
(***************************************************************************)
(* "sum(philosopher.eating for philosopher in philosophers)": the          *)
(* generator reads one philosopher's flag at a time.                       *)
WatchdogSum ==
    /\ wpc = "sum"
    /\ wcount' = wcount + (IF eating[widx] THEN 1 ELSE 0)
    /\ widx' = widx + 1
    /\ wpc' = IF widx + 1 = NumPhil THEN "test" ELSE "sum"
    /\ UNCHANGED <<forkVars, philVars, system_time, wfork, forced, holder, freed, calls>>

Healthy(n) == n = 1 \/ n = 2

ThresholdReached(t) == t >= StallThreshold

ThresholdExceeded(t) == t > StallThreshold

(* The rest of one pass of the loop up to the call of fork.__exit__: the   *)
(* test of the sum, sleep(1), the increment, the threshold test and        *)
(* random.randint(0, len(forks) - 1).                                      *)
WatchdogTest ==
    /\ wpc = "test"
    /\ widx' = 0
    /\ wcount' = 0
    /\ IF Healthy(wcount)
       THEN /\ system_time' = 0
            /\ wpc' = "sum"
            /\ wfork' = NoOwner
       ELSE IF ThresholdExceeded(system_time + 1)
            THEN /\ system_time' = system_time + 1
                 /\ wpc' = "exit"
                 /\ wfork' \in Forks
            ELSE /\ system_time' = system_time + 1
                 /\ wpc' = "sum"
                 /\ wfork' = NoOwner
    /\ freed' = FALSE
    /\ UNCHANGED <<forkVars, philVars, forced, holder, calls>>

(* fork.__exit__ called by check_forks: "if self.picked_up == True:"; if   *)
(* it is not, __exit__ returns and "system_time = 0" follows.              *)
WatchdogExitTest ==
    /\ wpc = "exit"
    /\ IF ExitGuard(wfork)
       THEN /\ wpc' = "release"
            /\ UNCHANGED <<system_time, wfork>>
       ELSE /\ wpc' = "sum"
            /\ system_time' = 0
            /\ wfork' = NoOwner
    /\ UNCHANGED <<forkVars, philVars, widx, wcount, forced, holder, freed, calls>>

(* "self.lock.release()": RuntimeError ends the check_forks thread.        *)
WatchdogExitRelease ==
    /\ wpc = "release"
    /\ IF lock[wfork]
       THEN /\ lock' = [lock EXCEPT ![wfork] = FALSE]
            /\ forced' = forced \cup {wfork}
            /\ holder' = [holder EXCEPT ![wfork] = NoOwner]
            /\ wpc' = "unpick"
       ELSE /\ UNCHANGED <<lock, forced, holder>>
            /\ wpc' = "dead"
    /\ UNCHANGED <<picked_up, owner, philVars, system_time, widx, wcount, wfork,
                   freed, calls>>

WatchdogExitUnpickSkipped ==
    /\ wpc = "unpick"
    /\ freed' = FALSE
    /\ wpc' = "unown"
    /\ UNCHANGED <<forkVars, philVars, system_time, widx, wcount, wfork, forced,
                   holder, calls>>

(* "self.picked_up = False" *)
WatchdogExitUnpick ==
    /\ wpc = "unpick"
    /\ picked_up' = [picked_up EXCEPT ![wfork] = FALSE]
    /\ freed' = picked_up[wfork]
    /\ wpc' = "unown"
    /\ UNCHANGED <<lock, owner, philVars, system_time, widx, wcount, wfork, forced,
                   holder, calls>>

WatchdogExitUnownAll ==
    /\ wpc = "unown"
    /\ owner' = [f \in Forks |-> NoOwner]
    /\ wpc' = "sum"
    /\ system_time' = 0
    /\ wfork' = NoOwner
    /\ freed' = FALSE
    /\ UNCHANGED <<lock, picked_up, philVars, widx, wcount, forced, holder, calls>>

(* "self.owner = -1", then back in check_forks "system_time = 0".          *)
WatchdogExitUnown ==
    /\ wpc = "unown"
    /\ owner' = [owner EXCEPT ![wfork] = NoOwner]
    /\ wpc' = "sum"
    /\ system_time' = 0
    /\ wfork' = NoOwner
    /\ freed' = FALSE
    /\ UNCHANGED <<lock, picked_up, philVars, widx, wcount, forced, holder, calls>>

Watchdog ==
    \/ WatchdogSum
    \/ WatchdogTest
    \/ WatchdogExitTest
    \/ WatchdogExitRelease
    \/ WatchdogExitUnpick
    \/ WatchdogExitUnown

Next == (\E i \in Phils : Philosopher(i)) \/ Watchdog

Spec == Init /\ [][Next]_vars

(***************************************************************************)
(* The program without the check_forks thread.                             *)
(***************************************************************************)
NextNoWatchdog == \E i \in Phils : Philosopher(i)

SpecNoWatchdog == Init /\ [][NextNoWatchdog]_vars

(***************************************************************************)
(* Scheduling: every thread that can run eventually runs, and              *)
(* random.randint returns every fork index again and again.                *)
(***************************************************************************)
Fairness ==
    /\ \A i \in Phils : WF_vars(Philosopher(i))
    /\ WF_vars(Watchdog)
    /\ \A f \in Forks : SF_vars(WatchdogTest /\ wfork' = f)

FairSpec == Spec /\ Fairness

(***************************************************************************)
(* Fork.__call__ and Fork.__exit__ run to completion by a single thread:   *)
(* the value of a Fork's fields after the call, from their value before.   *)
(***************************************************************************)
ForkOf(f) == [lock |-> lock[f], picked_up |-> picked_up[f], owner |-> owner[f]]

(* lock.acquire() returns only on an unlocked lock. *)
Fork__call__(fk, o) == [lock |-> TRUE, picked_up |-> TRUE, owner |-> o]

Fork__exit__Unguarded(fk) ==
    IF fk.lock
    THEN [fork |-> [lock |-> FALSE, picked_up |-> FALSE, owner |-> NoOwner],
          error |-> FALSE]
    ELSE [fork |-> fk, error |-> TRUE]

(* error: lock.release() raised RuntimeError, before any field was written *)
Fork__exit__(fk) ==
    IF fk.picked_up = TRUE
    THEN IF fk.lock
         THEN [fork |-> [lock |-> FALSE, picked_up |-> FALSE, owner |-> NoOwner],
               error |-> FALSE]
         ELSE [fork |-> fk, error |-> TRUE]
    ELSE [fork |-> fk, error |-> FALSE]

Record(c) == IF Len(calls) < 2 THEN Append(calls, c) ELSE <<calls[2], c>>

SetFork(f, fk) ==
    /\ lock' = [lock EXCEPT ![f] = fk.lock]
    /\ picked_up' = [picked_up EXCEPT ![f] = fk.picked_up]
    /\ owner' = [owner EXCEPT ![f] = fk.owner]

SeqCall(f, o) ==
    /\ ~lock[f]
    /\ SetFork(f, Fork__call__(ForkOf(f), o))
    /\ calls' = Record([op |-> "call", fork |-> f, before |-> ForkOf(f),
                        after |-> Fork__call__(ForkOf(f), o), error |-> FALSE])
    /\ UNCHANGED <<philVars, wdVars, forced, holder, freed>>

SeqExit(f) ==
    /\ SetFork(f, Fork__exit__(ForkOf(f)).fork)
    /\ calls' = Record([op |-> "exit", fork |-> f, before |-> ForkOf(f),
                        after |-> Fork__exit__(ForkOf(f)).fork,
                        error |-> Fork__exit__(ForkOf(f)).error])
    /\ UNCHANGED <<philVars, wdVars, forced, holder, freed>>

SeqNext == \E f \in Forks : SeqExit(f) \/ \E o \in Phils : SeqCall(f, o)

SeqSpec == Init /\ [][SeqNext]_vars

(***************************************************************************)
(* Positions of a philosopher relative to its two with-blocks.             *)
(***************************************************************************)
(* __call__ on the fork has returned and the philosopher's own __exit__ of *)
(* it has not yet been entered.                                            *)
InLeftBody(i) ==
    pc[i] \in {"R_acquire", "R_owner", "R_picked", "decrement", "eat_on",
               "eat_off", "R_exit", "R_release", "R_unpick", "R_unown", "L_exit"}

InRightBody(i) == pc[i] \in {"decrement", "eat_on", "eat_off", "R_exit"}

InBody(i, f) ==
    \/ f = LeftFork(i) /\ InLeftBody(i)
    \/ f = RightFork(i) /\ InRightBody(i)

(* ... and its own __exit__ has not yet executed lock.release().           *)
Holds(i, f) ==
    \/ InBody(i, f)
    \/ f = LeftFork(i) /\ pc[i] = "L_release"
    \/ f = RightFork(i) /\ pc[i] = "R_release"

Ended(i) == pc[i] \in {"done", "dead"}

(* Every philosopher has called __call__ on its right fork and is blocked  *)
(* in lock.acquire(), every lock being locked.                             *)
CircularWait ==
    \A i \in Phils : pc[i] = "R_acquire" /\ lock[RightFork(i)] /\ lock[LeftFork(i)]

(***************************************************************************)
(* C1.  Whenever a philosopher's eating flag is True, both its forks       *)
(* record it as owner.                                                     *)
(***************************************************************************)
EatingImpliesBothOwned ==
    \A i \in Phils :
        eating[i] => owner[LeftFork(i)] = i /\ owner[RightFork(i)] = i

(***************************************************************************)
(* C2.  For every fork whose lock the watchdog has not released, at most   *)
(* one philosopher is between the return of its __call__ on the fork and   *)
(* the lock.release() of its own __exit__ of the fork.                     *)
(***************************************************************************)
MutualExclusionUnforced ==
    \A f \in Forks :
        f \notin forced => Cardinality({i \in Phils : Holds(i, f)}) <= 1

(* A fork is held while the other philosopher of the fork is blocked in    *)
(* lock.acquire() on it.                                                   *)
MutualExclusionWitness ==
    \E f \in Forks : \E i, j \in Phils :
        /\ f \notin forced
        /\ Holds(i, f)
        /\ j # i
        /\ pc[j] = (IF f = LeftFork(j) THEN "L_acquire" ELSE "R_acquire")
        /\ eating[i]

(***************************************************************************)
(* C3.  Under fair scheduling every philosopher eventually leaves its run  *)
(* loop with no spaghetti left.                                            *)
(***************************************************************************)
AllTerminate == <>(\A i \in Phils : pc[i] = "done" /\ spaghetti[i] = 0)

(***************************************************************************)
(* C4.  Under fair scheduling, from the circular wait some philosopher     *)
(* eventually completes lock.acquire() on its right fork.                  *)
(***************************************************************************)
CircularWaitRecovers == CircularWait ~> (\E i \in Phils : pc[i] = "R_owner")

(***************************************************************************)
(* C5.  Without the watchdog: in the circular wait every philosopher still *)
(* has spaghetti and none of them can take a step.                         *)
(***************************************************************************)
CircularWaitIsDeadlock ==
    CircularWait =>
        \A i \in Phils : spaghetti[i] > 0 /\ ~ENABLED Philosopher(i)

CircularWaitReached ==
    /\ CircularWait
    /\ \A i \in Phils : owner[LeftFork(i)] = i /\ picked_up[LeftFork(i)]

(***************************************************************************)
(* C6.  spaghetti starts at m, changes only by the decrement of a          *)
(* philosopher that holds both forks, by exactly 1, is never negative, no  *)
(* eat() starts at 0, and it is 0 when the thread has ended.               *)
(***************************************************************************)
ConsumptionStep(i) ==
    /\ spaghetti'[i] \in {spaghetti[i], spaghetti[i] - 1}
    /\ spaghetti'[i] # spaghetti[i] => pc[i] = "decrement" /\ pc'[i] = "eat_on"
    /\ spaghetti'[i] >= 0
    /\ pc'[i] = "L_acquire" /\ pc[i] # "L_acquire" => spaghetti[i] > 0
    /\ Ended(i)' => spaghetti'[i] = 0

MonotonicConsumption ==
    /\ \A i \in Phils : spaghetti[i] = Meals
    /\ [][\A i \in Phils : ConsumptionStep(i)]_vars

(***************************************************************************)
(* C7.  A fork that is not picked up has no owner.                         *)
(***************************************************************************)
FreeForkHasNoOwner == \A f \in Forks : ~picked_up[f] => owner[f] = NoOwner

(***************************************************************************)
(* C8.  While a philosopher is inside the with-block of a fork whose lock  *)
(* the watchdog has not released, the fork is picked up and owned by that  *)
(* philosopher.                                                            *)
(***************************************************************************)
AcquirePostcondition ==
    \A i \in Phils : \A f \in Forks :
        InBody(i, f) /\ f \notin forced => picked_up[f] /\ owner[f] = i

(***************************************************************************)
(* C9.  No call of Fork.__exit__ raises: neither a philosopher thread nor  *)
(* the check_forks thread ends by RuntimeError.                            *)
(***************************************************************************)
ReleaseNeverRaises ==
    /\ wpc # "dead"
    /\ \A i \in Phils : pc[i] # "dead" /\ ~exc[i]

(***************************************************************************)
(* C10.  __exit__ on a fork that is not picked up changes none of its      *)
(* fields, leaves it free and raises nothing; a second __exit__ right      *)
(* after an __exit__ of the same fork changes nothing.                     *)
(***************************************************************************)
FreeFork == [lock |-> FALSE, picked_up |-> FALSE, owner |-> NoOwner]

IdempotentRelease ==
    /\ \A k \in 1 .. Len(calls) :
          calls[k].op = "exit" /\ ~calls[k].before.picked_up =>
              /\ calls[k].after = calls[k].before
              /\ calls[k].after = FreeFork
              /\ ~calls[k].error
    /\ Len(calls) = 2 /\ calls[1].op = "exit" /\ calls[2].op = "exit"
          /\ calls[1].fork = calls[2].fork =>
              /\ calls[2].before = calls[1].after
              /\ calls[2].after = calls[1].after
              /\ ~calls[2].error
    /\ Len(calls) > 0 =>
          ForkOf(calls[Len(calls)].fork) = calls[Len(calls)].after

(* __exit__ twice in a row on a fork that was free, and on one that was    *)
(* held before the first of the two.                                       *)
ReleasedTwice ==
    /\ Len(calls) = 2
    /\ calls[1].op = "exit" /\ calls[2].op = "exit"
    /\ calls[1].fork = calls[2].fork
    /\ calls[1].before = FreeFork
    /\ ForkOf(calls[2].fork) = FreeFork

(***************************************************************************)
(* Positions of the check_forks thread inside its call of fork.__exit__.   *)
(***************************************************************************)
InForcedRelease == wpc \in {"exit", "release", "unpick", "unown"}

(* The philosopher executes lock.release() of its own __exit__ of the fork *)
(* and the lock was locked.                                                *)
OwnUnlock(i, f) ==
    /\ lock[f] /\ ~lock'[f]
    /\ \/ f = LeftFork(i) /\ pc[i] = "L_release" /\ pc'[i] = "L_unpick"
       \/ f = RightFork(i) /\ pc[i] = "R_release" /\ pc'[i] = "R_unpick"

(***************************************************************************)
(* C11.  Whenever a philosopher's own __exit__ unlocks the lock of a fork, *)
(* the lock had been locked by that philosopher's own lock.acquire().      *)
(***************************************************************************)
OwnReleaseOfOwnHold ==
    [][\A i \in Phils : \A f \in Forks : OwnUnlock(i, f) => holder[f] = i]_vars

(***************************************************************************)
(* C12.  The sample that takes the stall counter above the threshold is    *)
(* followed at once by one call of fork.__exit__, and the end of that call *)
(* resets the counter to 0.                                                *)
(***************************************************************************)
BoundedStallResponse ==
    [][/\ wpc = "test" /\ wpc' # "test" /\ wcount \notin {1, 2}
             /\ system_time + 1 > StallThreshold
          => wpc' = "exit" /\ wfork' \in Forks
       /\ InForcedRelease /\ ~InForcedRelease'
          => wpc' = "sum" /\ system_time' = 0]_vars

AllDoneForksFree ==
    (\A i \in Phils : pc[i] = "done" /\ spaghetti[i] = 0) =>
        \A f \in Forks : ~lock[f] /\ ~picked_up[f] /\ owner[f] = NoOwner

(***************************************************************************)
(* The steps of check_forks that change system_time: a sample of 1 or 2    *)
(* sets it to 0, any other sample adds 1, fork.__exit__ is called only on  *)
(* a sample that takes it above the threshold, and nothing else changes it *)
(* but the reset after fork.__exit__.                                      *)
(***************************************************************************)
CounterStep ==
    /\ wpc = "test" /\ wpc' # "test" =>
          IF wcount \in {1, 2}
          THEN system_time' = 0 /\ wpc' = "sum"
          ELSE system_time' = system_time + 1
    /\ ~InForcedRelease /\ InForcedRelease' =>
          wpc = "test" /\ wcount \notin {1, 2} /\ system_time' > StallThreshold
    /\ wpc # "test" /\ system_time' # system_time =>
          InForcedRelease /\ wpc' = "sum" /\ system_time' = 0

(***************************************************************************)
(* C15 as stated.  The counter discipline, and the counter within          *)
(* 0..threshold.                                                           *)
(***************************************************************************)
StallCounterWithinThreshold ==
    /\ [](system_time \in 0 .. StallThreshold)
    /\ [][CounterStep]_vars

(***************************************************************************)
(* C15 as amended.  The counter discipline, and the counter within         *)
(* 0..threshold+1, above the threshold only from the sample that exceeds   *)
(* it until fork.__exit__ has returned.                                    *)
(***************************************************************************)
StallCounterDiscipline ==
    /\ [](/\ system_time \in 0 .. StallThreshold + 1
          /\ system_time > StallThreshold <=> InForcedRelease \/ wpc = "dead")
    /\ [][CounterStep]_vars

CounterAboveThreshold ==
    wpc = "release" /\ system_time = StallThreshold + 1

(***************************************************************************)
(* C16.  Order of a philosopher's steps: left __call__, right __call__,    *)
(* eating = True, eating = False, right __exit__, left __exit__; eating is *)
(* True only inside both with-blocks; no lock is held while thinking.      *)
(***************************************************************************)
Succ(l) ==
    CASE l = "think" -> {"L_acquire", "done"}
      [] l = "L_acquire" -> {"L_owner"}
      [] l = "L_owner" -> {"L_picked"}
      [] l = "L_picked" -> {"R_acquire"}
      [] l = "R_acquire" -> {"R_owner"}
      [] l = "R_owner" -> {"R_picked"}
      [] l = "R_picked" -> {"decrement"}
      [] l = "decrement" -> {"eat_on"}
      [] l = "eat_on" -> {"eat_off"}
      [] l = "eat_off" -> {"R_exit"}
      [] l = "R_exit" -> {"R_release", "L_exit"}
      [] l = "R_release" -> {"R_unpick", "L_exit"}
      [] l = "R_unpick" -> {"R_unown"}
      [] l = "R_unown" -> {"L_exit"}
      [] l = "L_exit" -> {"L_release", "think", "dead"}
      [] l = "L_release" -> {"L_unpick", "dead"}
      [] l = "L_unpick" -> {"L_unown"}
      [] l = "L_unown" -> {"think", "dead"}
      [] OTHER -> {}

OrderedStep(i) ==
    /\ pc'[i] # pc[i] => pc'[i] \in Succ(pc[i])
    /\ holder'[LeftFork(i)] = i /\ holder[LeftFork(i)] # i =>
          pc[i] = "L_acquire"
    /\ holder'[RightFork(i)] = i /\ holder[RightFork(i)] # i =>
          pc[i] = "R_acquire" /\ InLeftBody(i)
    /\ eating'[i] # eating[i] =>
          InLeftBody(i) /\ InRightBody(i) /\ InLeftBody(i)' /\ InRightBody(i)'
    /\ OwnUnlock(i, LeftFork(i)) => ~Holds(i, RightFork(i)) /\ ~eating[i]
    /\ OwnUnlock(i, RightFork(i)) => InLeftBody(i) /\ ~eating[i]

Thinking(i) == pc[i] \in {"think", "L_acquire"}

StepOrdering ==
    /\ [](\A i \in Phils : eating[i] => InLeftBody(i) /\ InRightBody(i))
    /\ [](\A i \in Phils : Thinking(i) => \A f \in Forks : holder[f] # i)
    /\ [][\A i \in Phils : OrderedStep(i)]_vars

(***************************************************************************)
(* A step of the check_forks thread: only its steps change its locals.     *)
(***************************************************************************)
WatchdogStep == wdVars' # wdVars

(***************************************************************************)
(* C17.  No step of check_forks changes spaghetti or eating; a step inside *)
(* fork.__exit__ changes no field of a fork other than the selected one;   *)
(* a step outside fork.__exit__ changes no fork.                           *)
(***************************************************************************)
WatchdogFrame ==
    [][WatchdogStep =>
          /\ spaghetti' = spaghetti
          /\ eating' = eating
          /\ \A f \in Forks :
                f # wfork =>
                    /\ lock'[f] = lock[f]
                    /\ picked_up'[f] = picked_up[f]
                    /\ owner'[f] = owner[f]
          /\ ~InForcedRelease => forkVars' = forkVars]_vars

(* A forced release has rewritten all three fields of the selected fork    *)
(* while both philosophers are in their with-blocks.                       *)
WatchdogFrameWitness ==
    /\ wpc = "sum"
    /\ forced # {}
    /\ \E f \in forced : ~lock[f] /\ ~picked_up[f] /\ owner[f] = NoOwner
    /\ \E i \in Phils : eating[i] /\ spaghetti[i] < Meals

Shares(i, j, f) ==
    /\ i # j
    /\ f \in {LeftFork(i), RightFork(i)}
    /\ f \in {LeftFork(j), RightFork(j)}

(***************************************************************************)
(* C18.  Two philosophers that share a fork have eating == True at the     *)
(* same time only if the watchdog has released the lock of that fork.      *)
(***************************************************************************)
OverlapOnlyAfterForcedRelease ==
    \A i, j \in Phils : \A f \in Forks :
        Shares(i, j, f) /\ eating[i] /\ eating[j] => f \in forced

(* The fork of a philosopher in its critical section was force-released,   *)
(* its neighbour locked it, and both are eating.                           *)
OverlapAfterForcedRelease ==
    \E i, j \in Phils : \E f \in forced :
        /\ Shares(i, j, f)
        /\ eating[i] /\ eating[j]
        /\ holder[f] = j
        /\ InBody(i, f) /\ InBody(j, f)

InWith(i, f) ==
    \/ f = LeftFork(i) /\ pc[i] \notin {"think", "L_acquire", "done", "dead"}
    \/ f = RightFork(i)
          /\ pc[i] \in {"R_owner", "R_picked", "decrement", "eat_on", "eat_off",
                        "R_exit", "R_release", "R_unpick", "R_unown"}

(***************************************************************************)
(* C19.  A locked lock belongs to a philosopher that has locked it and has *)
(* not yet finished its __exit__ of the fork.                              *)
(***************************************************************************)
NoLeakedLock ==
    \A f \in Forks : lock[f] => \E i \in Phils : InWith(i, f) /\ holder[f] = i

EatingNow == Cardinality({i \in Phils : eating[i]})

(***************************************************************************)
(* C20.  When check_forks executes lock.release() of a forced    *)
(* release, the number of philosophers with eating == True is not 1 or 2.  *)
(***************************************************************************)
ForcedReleaseOnCurrentStall ==
    [][wpc = "release" /\ wpc' = "unpick" => EatingNow \notin {1, 2}]_vars

====
